---- MODULE Spec2Model ----
(***************************************************************************)
(* A model of the stereo reprojection engine ("2D Reprojection/            *)
(* reprojector.py") and of the frame extractor ("Ingestion/                *)
(* frame_loader.py").                                                      *)
(*                                                                         *)
(* Numbers.  A floating-point value is modelled by the exact rational it   *)
(* approximates, a pair <<n, d>> in lowest terms with d > 0, or by one of  *)
(* the two non-finite outcomes of an IEEE division by zero: Inf = <<1, 0>> *)
(* (an infinity of either sign) and NaN = <<0, 0>>.  Rounding and the sign *)
(* of zero are not modelled; an array carries its dtype, so the final      *)
(* astype(np.float32) is visible on the array.                             *)
(*                                                                         *)
(* Arrays.  A numpy array is a record [shape, rows, dtype]: shape <<n>>    *)
(* for a 1-D array (rows is then a sequence of scalars) and <<r, c>> for a *)
(* 2-D array (rows is a sequence of r sequences of c scalars).             *)
(***************************************************************************)
EXTENDS Integers, Sequences, FiniteSets, TLC

VARIABLES
    config_path,   \* config.CALIBRATION_DATA_PATH
    engine,        \* the StereoReprojector object: its state, P1 and P2
    pc,            \* where the current reprojector call stands
    batch,         \* the batch of 3D points the caller holds (points_3d)
    call,          \* the current (or last) call: op, path, camera
    raised,        \* the exception the last call raised (NoExc if none)
    result,        \* the arrays the last call returned (<< >> if none)
    locals,        \* reproject_to_both_cameras: reprojected_cam1, _cam2
    video,         \* the video file: kind and number of frames
    args,          \* extract_frames_from_video: frame_interval, max_frames
    fpc,           \* where extract_frames_from_video stands
    cap_pos,       \* the capture's read position
    frame,         \* the frame the last cap.read() returned (its index)
    frame_count,
    saved_count,
    frame_paths,   \* the list returned: one entry per file written
    disk,          \* the files written: number in the name |-> frame saved
    fraised        \* the exception extract_frames_from_video raised

rvars == << config_path, engine, batch, pc, call, raised, result, locals >>
fvars == << video, args, fpc, cap_pos, frame, frame_count, saved_count,
            frame_paths, disk, fraised >>
vars == << rvars, fvars >>

\* ------------------------------------------------------------------ bounds
\* The longest batch of 3D points handed to the engine.
MaxPoints == 2
\* The longest video (in frames) handed to the frame extractor.
MaxVideoFrames == 4
\* The largest frame_interval and the largest max_frames tried.
MaxInterval == 3
MaxMaxFrames == 3

\* ----------------------------------------------------------------- numbers
Abs(x) == IF x < 0 THEN -x ELSE x

RECURSIVE GCD(_, _)
GCD(a, b) == IF b = 0 THEN a ELSE GCD(b, a % b)

\* The rational n/d (d # 0) in lowest terms with a positive denominator.
Rat(n, d) ==
    LET s == IF d < 0 THEN -1 ELSE 1
        g == GCD(Abs(n), Abs(d))
    IN  << (s * n) \div g, (s * d) \div g >>

Inf == << 1, 0 >>
NaN == << 0, 0 >>
IsFinite(v) == v[2] # 0

\* Floating-point +, * and / (numpy's element arithmetic).  A division by
\* zero does not raise: it gives inf (NaN for 0/0) with a RuntimeWarning.
FAdd(a, b) ==
    IF a = NaN \/ b = NaN THEN NaN
    ELSE IF a = Inf \/ b = Inf THEN Inf
    ELSE Rat(a[1] * b[2] + b[1] * a[2], a[2] * b[2])

FMul(a, b) ==
    IF a = NaN \/ b = NaN THEN NaN
    ELSE IF a = Inf \/ b = Inf
         THEN (IF a[1] = 0 \/ b[1] = 0 THEN NaN ELSE Inf)
    ELSE Rat(a[1] * b[1], a[2] * b[2])

true_divide(a, b) ==
    IF a = NaN \/ b = NaN THEN NaN
    ELSE IF a = Inf THEN (IF b = Inf THEN NaN ELSE Inf)
    ELSE IF b = Inf THEN Rat(0, 1)
    ELSE IF b[1] = 0 THEN (IF a[1] = 0 THEN NaN ELSE Inf)
    ELSE Rat(a[1] * b[2], a[2] * b[1])

RECURSIVE FSum(_)
FSum(s) == IF s = << >> THEN Rat(0, 1) ELSE FAdd(Head(s), FSum(Tail(s)))

\* ------------------------------------------------------------------ arrays
\* np.asarray([]): what numpy makes of the empty Python list, shape (0,).
EmptyList == [shape |-> << 0 >>, rows |-> << >>, dtype |-> "float64"]
Array2(rs, c, dt) == [shape |-> << Len(rs), c >>, rows |-> rs, dtype |-> dt]
ndim(a) == Len(a.shape)
\* len(a): the length of the first axis.
len(a) == a.shape[1]
NCols(a) == a.shape[2]

\* np.ones((n, 1))
ones(n) == Array2([i \in 1..n |-> << Rat(1, 1) >>], 1, "float64")

\* np.hstack([a, b]): 1-D first argument => concatenate along axis 0, else
\* along axis 1; np.concatenate wants equal ndim and equal other axes.
hstack_ok(a, b) ==
    /\ ndim(a) = ndim(b)
    /\ ndim(a) = 2 => len(a) = len(b)

hstack(a, b) ==
    IF ndim(a) = 1
    THEN [shape |-> << len(a) + len(b) >>, rows |-> a.rows \o b.rows,
          dtype |-> "float64"]
    ELSE Array2([i \in 1..len(a) |-> a.rows[i] \o b.rows[i]],
                NCols(a) + NCols(b), "float64")

\* a.T of a 2-D array.
Transpose(a) ==
    [shape |-> << NCols(a), len(a) >>,
     rows  |-> [j \in 1..NCols(a) |-> [i \in 1..len(a) |-> a.rows[i][j]]],
     dtype |-> a.dtype]

\* a @ b of two 2-D arrays: the inner dimensions must agree.
matmul_ok(a, b) == NCols(a) = len(b)

matmul(a, b) ==
    Array2([i \in 1..len(a) |->
              [j \in 1..NCols(b) |->
                 FSum([k \in 1..NCols(a) |-> FMul(a.rows[i][k], b.rows[k][j])])]],
           NCols(b), "float64")

\* a[:, lo:hi] (0-based, hi exclusive, clipped to the array as Python does).
Min(x, y) == IF x < y THEN x ELSE y

ColSlice(a, lo, hi) ==
    LET h == Min(hi, NCols(a))
        l == Min(lo, h)
    IN  Array2([i \in 1..len(a) |-> [j \in 1..(h - l) |-> a.rows[i][l + j]]],
               h - l, a.dtype)

\* a / b of two 2-D arrays with the same first axis: the second axes
\* broadcast (equal, or one of them 1).
divide_ok(a, b) == NCols(a) = NCols(b) \/ NCols(a) = 1 \/ NCols(b) = 1

divide(a, b) ==
    LET c == IF NCols(a) = 1 THEN NCols(b) ELSE NCols(a)
    IN  Array2([i \in 1..len(a) |->
                  [j \in 1..c |->
                     true_divide(a.rows[i][IF NCols(a) = 1 THEN 1 ELSE j],
                                 b.rows[i][IF NCols(b) = 1 THEN 1 ELSE j])]],
               c, "float64")

astype(a, dt) == [a EXCEPT !.dtype = dt]

\* ------------------------------------------------------ calibration files
\* A 2-D float64 array from rows of integers.
Mat(rs, c) ==
    Array2([i \in 1..Len(rs) |-> [j \in 1..c |-> Rat(rs[i][j], 1)]], c, "float64")

NoArray == [shape |-> << >>, rows |-> << >>, dtype |-> "none"]

PIdentity  == Mat(<< <<1, 0, 0, 0>>, <<0, 1, 0, 0>>, <<0, 0, 1, 0>> >>, 4)
PPinhole   == Mat(<< <<100, 0, 50, 0>>, <<0, 100, 50, 0>>, <<0, 0, 1, 0>> >>, 4)
PShifted   == Mat(<< <<2, 0, 1, 1>>, <<0, 2, 1, 0>>, <<0, 0, 1, -1>> >>, 4)
PTwoRows   == Mat(<< <<1, 0, 0, 0>>, <<0, 1, 0, 0>> >>, 4)

\* The files the engine may be pointed at: what os.path.exists answers and
\* what np.load(path)[key] holds.
NoFile == [exists |-> FALSE, keys |-> {}, P1 |-> NoArray, P2 |-> NoArray]
Npz(ks, p1, p2) == [exists |-> TRUE, keys |-> ks, P1 |-> p1, P2 |-> p2]

Paths == {"missing.npz", "calib_a.npz", "calib_b.npz", "no_p2.npz", "bad_shape.npz"}

Files(path) ==
    CASE path = "calib_a.npz"   -> Npz({"P1", "P2"}, PIdentity, PShifted)
      [] path = "calib_b.npz"   -> Npz({"P1", "P2"}, PPinhole, PIdentity)
      [] path = "no_p2.npz"     -> Npz({"P1"}, PIdentity, NoArray)
      [] path = "bad_shape.npz" -> Npz({"P1", "P2"}, PTwoRows, PIdentity)
      [] OTHER                  -> NoFile

os_path_exists(path) == Files(path).exists

\* The calibration_path argument None (or any falsy value).
NonePath == "<None>"
\* The values config.CALIBRATION_DATA_PATH may have.
DefaultPaths == {"missing.npz", "calib_a.npz"}

\* -------------------------------------------------------------- exceptions
NoExc == [type |-> "none", msg |-> ""]
Exc(t, m) == [type |-> t, msg |-> m]
Raise(t, m) == [raised |-> Exc(t, m), value |-> << >>]
\* A normal return of the sequence of arrays vs.
Return(vs) == [raised |-> NoExc, value |-> vs]

\* ---------------------------------------------------------- the reprojector
\* A loader that does not look whether the file exists.
_load_calibration_NoExistsCheck(calibration_path) ==
    LET data == Files(calibration_path)
    IN  IF "P1" \notin data.keys THEN Raise("KeyError", "P1")
        ELSE IF "P2" \notin data.keys THEN Raise("KeyError", "P2")
        ELSE Return(<< data.P1, data.P2 >>)

\* StereoReprojector._load_calibration
_load_calibration(calibration_path) ==
    IF ~os_path_exists(calibration_path)
    THEN Raise("FileNotFoundError", "Calibration file not found")
    ELSE LET data == Files(calibration_path)
         IN  IF "P1" \notin data.keys THEN Raise("KeyError", "P1")
             ELSE IF "P2" \notin data.keys THEN Raise("KeyError", "P2")
             ELSE Return(<< data.P1, data.P2 >>)

Cameras == {"cam1", "cam2"}

\* A reprojector that takes P1 for both cameras.
SelectP_AlwaysP1(self, camera) == self.P1

\* if camera == 'cam1': P = self.P1 elif camera == 'cam2': P = self.P2
SelectP(self, camera) == IF camera = "cam1" THEN self.P1 ELSE self.P2

\* A projection that forgets the outer transpose.
ProjectHomogeneous_NoTranspose(P, points_3d_homogeneous) ==
    matmul(P, Transpose(points_3d_homogeneous))

\* projected_homogeneous = (P @ points_3d_homogeneous.T).T
ProjectHomogeneous(P, points_3d_homogeneous) ==
    Transpose(matmul(P, Transpose(points_3d_homogeneous)))

\* project_3d_to_2d, lines 90-101: the projection with the matrix P.
ProjectWith(P, points_3d) ==
    LET n_points == len(points_3d)
    IN  IF ~hstack_ok(points_3d, ones(n_points))
        THEN Raise("ValueError", "all the input arrays must have same number of dimensions")
        ELSE
        LET points_3d_homogeneous == hstack(points_3d, ones(n_points))
        IN  IF ~matmul_ok(P, Transpose(points_3d_homogeneous))
            THEN Raise("ValueError", "matmul: mismatch in core dimension")
            ELSE
            LET projected_homogeneous == ProjectHomogeneous(P, points_3d_homogeneous)
                xy == ColSlice(projected_homogeneous, 0, 2)
                w  == ColSlice(projected_homogeneous, 2, 3)
            IN  IF ~divide_ok(xy, w)
                THEN Raise("ValueError", "operands could not be broadcast together")
                ELSE Return(<< astype(divide(xy, w), "float32") >>)

CameraError == Exc("ValueError", "camera must be 'cam1' or 'cam2'")

\* A reprojector that looks at the camera only after projecting.
project_3d_to_2d_LateCheck(self, points_3d, camera) ==
    LET r == ProjectWith(SelectP(self, camera), points_3d)
    IN  IF r.raised # NoExc THEN r
        ELSE IF camera \notin Cameras THEN [raised |-> CameraError, value |-> << >>]
        ELSE r

\* StereoReprojector.project_3d_to_2d
project_3d_to_2d(self, points_3d, camera) ==
    IF camera \notin Cameras
    THEN [raised |-> CameraError, value |-> << >>]
    ELSE ProjectWith(SelectP(self, camera), points_3d)

\* ------------------------------------------------------------------ inputs
\* The 3D points the caller may put in a batch (X, Y, Z in metres).
Points3D ==
    { << Rat(0, 1),  Rat(0, 1), Rat(3, 5) >>,
      << Rat(1, 10), Rat(0, 1), Rat(3, 5) >>,
      << Rat(0, 1),  Rat(1, 1), Rat(1, 1) >>,
      << Rat(0, 1),  Rat(0, 1), Rat(0, 1) >>,
      << Rat(1, 10), Rat(1, 1), Rat(0, 1) >> }

\* np.zeros((0, 3), dtype=np.float32): the batch of no points, as an array.
EmptyBatch == Array2(<< >>, 3, "float32")

CameraArgs == {"cam1", "cam2", "cam3", "CAM1"}

NoEngine == [state |-> "none", P1 |-> NoArray, P2 |-> NoArray]
NoCall == [op |-> "none", path |-> "", camera |-> ""]

RInit ==
    /\ config_path \in DefaultPaths
    /\ engine = NoEngine
    /\ batch = EmptyBatch
    /\ pc = "idle"
    /\ call = NoCall
    /\ raised = NoExc
    /\ result = << >>
    /\ locals = << >>

\* The caller starts a new batch, the array of no points or the list [],
\* and drops what the last call returned.
NewBatch(b) ==
    /\ pc = "idle"
    /\ call.op # "none"
    /\ batch' = b
    /\ call' = NoCall
    /\ raised' = NoExc
    /\ result' = << >>
    /\ UNCHANGED << config_path, engine, pc, locals >>
    /\ UNCHANGED fvars

\* The caller adds a point to a batch it has not yet handed to the engine.
AddPoint(p) ==
    /\ pc = "idle"
    /\ call.op = "none"
    /\ ndim(batch) = 2
    /\ len(batch) < MaxPoints
    /\ batch' = Array2(Append(batch.rows, p), 3, batch.dtype)
    /\ UNCHANGED << config_path, engine, pc, call, raised, result, locals >>
    /\ UNCHANGED fvars

\* The caller replaces the empty array by the empty Python list [].
UseEmptyList ==
    /\ pc = "idle"
    /\ call.op = "none"
    /\ batch = EmptyBatch
    /\ batch' = EmptyList
    /\ UNCHANGED << config_path, engine, pc, call, raised, result, locals >>
    /\ UNCHANGED fvars

\* StereoReprojector.__init__
Construct(calibration_path) ==
    /\ pc = "idle"
    /\ engine.state = "none"
    /\ LET path == IF calibration_path = NonePath THEN config_path
                   ELSE calibration_path
           calibration == _load_calibration(path)
       IN  /\ call' = [NoCall EXCEPT !.op = "__init__", !.path = path]
           /\ raised' = calibration.raised
           /\ result' = << >>
           /\ engine' = IF calibration.raised = NoExc
                         THEN [state |-> "ready",
                               P1 |-> calibration.value[1],
                               P2 |-> calibration.value[2]]
                         ELSE engine
    /\ UNCHANGED << config_path, batch, pc, locals >>
    /\ UNCHANGED fvars

\* A direct call of self._load_calibration(path) on a constructed engine.
LoadCalibration(calibration_path) ==
    /\ pc = "idle"
    /\ engine.state = "ready"
    /\ LET calibration == _load_calibration(calibration_path)
       IN  /\ call' = [NoCall EXCEPT !.op = "_load_calibration",
                                     !.path = calibration_path]
           /\ raised' = calibration.raised
           /\ result' = calibration.value
    /\ UNCHANGED << config_path, engine, batch, pc, locals >>
    /\ UNCHANGED fvars

\* A call of self.project_3d_to_2d(points_3d, camera).
Project(camera) ==
    /\ pc = "idle"
    /\ engine.state = "ready"
    /\ LET r == project_3d_to_2d(engine, batch, camera)
       IN  /\ call' = [NoCall EXCEPT !.op = "project_3d_to_2d", !.camera = camera]
           /\ raised' = r.raised
           /\ result' = r.value
    /\ UNCHANGED << config_path, engine, batch, pc, locals >>
    /\ UNCHANGED fvars

\* reproject_to_both_cameras, line 113:
\* reprojected_cam1 = self.project_3d_to_2d(points_3d, camera='cam1')
BothCam1 ==
    /\ pc = "idle"
    /\ engine.state = "ready"
    /\ call' = [NoCall EXCEPT !.op = "reproject_to_both_cameras"]
    /\ result' = << >>
    /\ LET r == project_3d_to_2d(engine, batch, "cam1")
       IN  /\ raised' = r.raised
           /\ locals' = r.value
           /\ pc' = IF r.raised = NoExc THEN "both_cam2" ELSE "idle"
    /\ UNCHANGED << config_path, engine, batch >>
    /\ UNCHANGED fvars

\* A second call that asks for cam1 again.
BothCam2_SameCamera ==
    /\ pc = "both_cam2"
    /\ LET r == project_3d_to_2d(engine, batch, "cam1")
       IN  /\ raised' = r.raised
           /\ locals' = IF r.raised = NoExc THEN locals \o r.value ELSE << >>
           /\ pc' = IF r.raised = NoExc THEN "both_return" ELSE "idle"
    /\ UNCHANGED << config_path, engine, batch, call, result >>
    /\ UNCHANGED fvars

\* line 114: reprojected_cam2 = self.project_3d_to_2d(points_3d, camera='cam2')
BothCam2 ==
    /\ pc = "both_cam2"
    /\ LET r == project_3d_to_2d(engine, batch, "cam2")
       IN  /\ raised' = r.raised
           /\ locals' = IF r.raised = NoExc THEN locals \o r.value ELSE << >>
           /\ pc' = IF r.raised = NoExc THEN "both_return" ELSE "idle"
    /\ UNCHANGED << config_path, engine, batch, call, result >>
    /\ UNCHANGED fvars

\* lines 116-118: return reprojected_cam1, reprojected_cam2
BothReturn ==
    /\ pc = "both_return"
    /\ result' = locals
    /\ locals' = << >>
    /\ pc' = "idle"
    /\ UNCHANGED << config_path, engine, batch, call, raised >>
    /\ UNCHANGED fvars

\* ---------------------------------------------------- the frame extractor
\* max_frames is None or an integer.
NoneInt == [none |-> TRUE, v |-> 0]
Int_(n) == [none |-> FALSE, v |-> n]
\* Python's truth value of max_frames: None and 0 are false.
Truthy(m) == ~m.none /\ m.v # 0

Videos ==
    {[kind |-> "missing", frames |-> 0], [kind |-> "unreadable", frames |-> 0]}
    \cup {[kind |-> "ok", frames |-> t] : t \in 0..MaxVideoFrames}

ExtractArgs ==
    [frame_interval : 0..MaxInterval,
     max_frames : {NoneInt} \cup {Int_(n) : n \in -1..MaxMaxFrames}]

FIdle ==
    /\ video = [kind |-> "missing", frames |-> 0]
    /\ args = [frame_interval |-> 1, max_frames |-> NoneInt]
    /\ fpc = "idle"
    /\ cap_pos = 0
    /\ frame = 0
    /\ frame_count = 0
    /\ saved_count = 0
    /\ frame_paths = << >>
    /\ disk = {}
    /\ fraised = NoExc

FInit ==
    /\ video \in Videos
    /\ args \in ExtractArgs
    /\ fpc = "start"
    /\ cap_pos = 0
    /\ frame = 0
    /\ frame_count = 0
    /\ saved_count = 0
    /\ frame_paths = << >>
    /\ disk = {}
    /\ fraised = NoExc

\* lines 96-115: the checks, cv2.VideoCapture and the counters.
ExtractStart ==
    /\ fpc = "start"
    /\ IF video.kind = "missing"
       THEN /\ fraised' = Exc("FileNotFoundError", "Video file not found")
            /\ fpc' = "raised"
       ELSE IF video.kind = "unreadable"
       THEN /\ fraised' = Exc("ValueError", "Cannot open video file")
            /\ fpc' = "raised"
       ELSE /\ fraised' = NoExc
            /\ fpc' = "read"
    /\ frame_paths' = << >>
    /\ frame_count' = 0
    /\ saved_count' = 0
    /\ UNCHANGED << video, args, cap_pos, frame, disk >>
    /\ UNCHANGED rvars

\* lines 117-120: ret, frame = cap.read(); if not ret: break
ExtractRead ==
    /\ fpc = "read"
    /\ IF cap_pos < video.frames
       THEN /\ frame' = cap_pos
            /\ cap_pos' = cap_pos + 1
            /\ fpc' = "body"
       ELSE /\ fpc' = "release"
            /\ UNCHANGED << frame, cap_pos >>
    /\ UNCHANGED << video, args, frame_count, saved_count, frame_paths, disk,
                    fraised >>
    /\ UNCHANGED rvars

\* cv2.imwrite of the frame under the name numbered saved_count.
imwrite(d, number, fr) == {e \in d : e[1] # number} \cup {<< number, fr >>}

\* line 130: if max_frames and saved_count >= max_frames
ReachedMax(max_frames, saved) == Truthy(max_frames) /\ saved >= max_frames.v

\* lines 122-133: the body of the loop after a successful read.
ExtractBody ==
    /\ fpc = "body"
    /\ IF args.frame_interval = 0
       THEN /\ fraised' = Exc("ZeroDivisionError", "integer modulo by zero")
            /\ fpc' = "raised"
            /\ UNCHANGED << frame_count, saved_count, frame_paths, disk >>
       ELSE IF frame_count % args.frame_interval = 0
       THEN /\ disk' = imwrite(disk, saved_count, frame)
            /\ frame_paths' = Append(frame_paths, saved_count)
            /\ saved_count' = saved_count + 1
            /\ IF ReachedMax(args.max_frames, saved_count + 1)
               THEN /\ fpc' = "release"
                    /\ UNCHANGED frame_count
               ELSE /\ fpc' = "read"
                    /\ frame_count' = frame_count + 1
            /\ UNCHANGED fraised
       ELSE /\ frame_count' = frame_count + 1
            /\ fpc' = "read"
            /\ UNCHANGED << saved_count, frame_paths, disk, fraised >>
    /\ UNCHANGED << video, args, cap_pos, frame >>
    /\ UNCHANGED rvars

\* lines 135-138: cap.release(); return frame_paths
ExtractReturn ==
    /\ fpc = "release"
    /\ fpc' = "returned"
    /\ UNCHANGED << video, args, cap_pos, frame, frame_count, saved_count,
                    frame_paths, disk, fraised >>
    /\ UNCHANGED rvars

\* ---------------------------------------------------------- specifications
\* The reprojection engine and its caller.
Init == RInit /\ FIdle

Next ==
    \/ \E p \in Paths \cup {NonePath} : Construct(p)
    \/ \E p \in Paths : LoadCalibration(p)
    \/ \E b \in {EmptyBatch, EmptyList} : NewBatch(b)
    \/ \E p \in Points3D : AddPoint(p)
    \/ UseEmptyList
    \/ \E c \in CameraArgs : Project(c)
    \/ BothCam1
    \/ BothCam2
    \/ BothReturn

Spec == Init /\ [][Next]_vars

\* One call of extract_frames_from_video.
InitFrames == FInit /\ RInit

NextFrames ==
    \/ ExtractStart
    \/ ExtractRead
    \/ ExtractBody
    \/ ExtractReturn

SpecFrames == InitFrames /\ [][NextFrames]_vars

\* ------------------------------------------------------------------ claims
\* Exact rational arithmetic, for stating what a projection must equal.
QAdd(a, b) == Rat(a[1] * b[2] + b[1] * a[2], a[2] * b[2])
QMul(a, b) == Rat(a[1] * b[1], a[2] * b[2])
QDiv(a, b) == Rat(a[1] * b[2], a[2] * b[1])

\* Row r of P . [X, Y, Z, 1]^T for the point pt = <<X, Y, Z>>.
Homogeneous(P, r, pt) ==
    QAdd(QAdd(QAdd(QMul(P.rows[r][1], pt[1]), QMul(P.rows[r][2], pt[2])),
              QMul(P.rows[r][3], pt[3])),
         P.rows[r][4])

Is3x4(P) == P.shape = << 3, 4 >>
Calibrated == engine.state = "ready" /\ Is3x4(engine.P1) /\ Is3x4(engine.P2)
\* The matrix the claims name for the camera of the last call.
ClaimedP == IF call.camera = "cam1" THEN engine.P1 ELSE engine.P2
Projected == call.op = "project_3d_to_2d"
\* The points of the batch, as many as len(points_3d).
NPoints == len(batch)
Degenerate(P, pt) == Homogeneous(P, 3, pt) = Rat(0, 1)

\* C1: with a 3x4 calibration pair, project_3d_to_2d takes P1 for cam1 and P2
\* for cam2 and, for every point whose divisor w_h is not zero, returns at the
\* point's index (x_h / w_h, y_h / w_h) where [x_h, y_h, w_h] = P [X, Y, Z, 1]^T;
\* with P1 = [[1,0,0,0],[0,1,0,0],[0,0,1,0]] the point (0, 0, 0.6) gives (0, 0).
C1_ProjectionFormula ==
    (Projected /\ call.camera \in Cameras /\ Calibrated) =>
        \A i \in 1..NPoints :
            LET pt == batch.rows[i]
                x_h == Homogeneous(ClaimedP, 1, pt)
                y_h == Homogeneous(ClaimedP, 2, pt)
                w_h == Homogeneous(ClaimedP, 3, pt)
            IN  w_h # Rat(0, 1) =>
                  /\ raised = NoExc
                  /\ Len(result) = 1
                  /\ result[1].rows[i] = << QDiv(x_h, w_h), QDiv(y_h, w_h) >>
                  /\ (ClaimedP = PIdentity /\ pt = << Rat(0, 1), Rat(0, 1), Rat(3, 5) >>)
                        => result[1].rows[i] = << Rat(0, 1), Rat(0, 1) >>

\* The identity-like P1 sends (0, 0, 0.6) to (0, 0) and, in the same batch,
\* (0.1, 0, 0.6) to (1/6, 0); P2 is another matrix.
C1_Witness ==
    /\ Projected
    /\ call.camera = "cam1"
    /\ engine.P1 = PIdentity
    /\ engine.P2 = PShifted
    /\ batch.rows = << << Rat(0, 1), Rat(0, 1), Rat(3, 5) >>,
                       << Rat(1, 10), Rat(0, 1), Rat(3, 5) >> >>
    /\ raised = NoExc
    /\ result[1].rows = << << Rat(0, 1), Rat(0, 1) >>, << Rat(1, 6), Rat(0, 1) >> >>

\* The pinhole matrix [[100,0,50,0],[0,100,50,0],[0,0,1,0]] sends
\* (0.1, 0, 0.6) to (200/3, 50), i.e. (66.67, 50.0).
PinholeScenario ==
    (Projected /\ call.camera = "cam1" /\ engine.P1 = PPinhole /\ NPoints >= 1
       /\ batch.rows[1] = << Rat(1, 10), Rat(0, 1), Rat(3, 5) >>)
      => result[1].rows[1] = << Rat(200, 3), Rat(50, 1) >>

\* C2: a successful project_3d_to_2d call on a non-empty batch of N points
\* returns exactly N 2D points, and the output at index i is the projection of
\* the input at index i: the quotient when w_h is not zero, a non-finite pair
\* otherwise.
C2_LengthAndOrder ==
    (Projected /\ call.camera \in Cameras /\ raised = NoExc /\ NPoints >= 1) =>
        /\ Len(result) = 1
        /\ result[1].shape = << NPoints, 2 >>
        /\ Len(result[1].rows) = NPoints
        /\ \A i \in 1..NPoints :
              LET pt == batch.rows[i]
                  w_h == Homogeneous(ClaimedP, 3, pt)
                  out == result[1].rows[i]
              IN  /\ Len(out) = 2
                  /\ IF w_h = Rat(0, 1)
                     THEN ~IsFinite(out[1]) /\ ~IsFinite(out[2])
                     ELSE /\ out[1] = QDiv(Homogeneous(ClaimedP, 1, pt), w_h)
                          /\ out[2] = QDiv(Homogeneous(ClaimedP, 2, pt), w_h)

\* Two points with different projections, returned in the order given.
C2_Witness ==
    /\ Projected
    /\ call.camera = "cam2"
    /\ engine.P2 = PShifted
    /\ raised = NoExc
    /\ NPoints = 2
    /\ batch.rows[1] # batch.rows[2]
    /\ Len(result[1].rows) = 2
    /\ result[1].rows[1] # result[1].rows[2]
    /\ IsFinite(result[1].rows[1][1])
    /\ IsFinite(result[1].rows[2][1])

\* C3: for a camera other than 'cam1' and 'cam2' and any batch, empty or not,
\* project_3d_to_2d raises the camera ValueError before it projects anything,
\* returns no points, and leaves the engine (P1, P2) and the batch as they were.
C3_UnknownCamera ==
    /\ [](Projected /\ call.camera \notin Cameras =>
             /\ raised = CameraError
             /\ result = << >>)
    /\ [][(call'.op = "project_3d_to_2d" /\ call'.camera \notin Cameras) =>
             /\ engine' = engine
             /\ batch' = batch]_vars

\* cam3 is refused for the list [], whose projection would itself have raised
\* (np.hstack), with the camera error and not with numpy's.
C3_Witness ==
    /\ Projected
    /\ call.camera = "cam3"
    /\ batch = EmptyList
    /\ raised = CameraError
    /\ result = << >>

\* C5: reproject_to_both_cameras ends as the two project_3d_to_2d calls would,
\* cam1 then cam2, on the same engine and batch: it returns the pair of their
\* results, each as long as the batch, or raises what the first failing call
\* raises; and neither the engine nor the batch changes while it runs.
C5_BothEqualsTwoCalls ==
    /\ []((call.op = "reproject_to_both_cameras" /\ pc = "idle") =>
            LET r1 == project_3d_to_2d(engine, batch, "cam1")
                r2 == project_3d_to_2d(engine, batch, "cam2")
            IN  IF r1.raised # NoExc
                THEN raised = r1.raised /\ result = << >>
                ELSE IF r2.raised # NoExc
                THEN raised = r2.raised /\ result = << >>
                ELSE /\ raised = NoExc
                     /\ result = << r1.value[1], r2.value[1] >>
                     /\ len(result[1]) = NPoints
                     /\ len(result[2]) = NPoints)
    /\ [][(pc # "idle" \/ pc' # "idle") => (engine' = engine /\ batch' = batch)]_vars

\* A returned pair for a batch of two points on which the cameras differ.
C5_Witness ==
    /\ call.op = "reproject_to_both_cameras"
    /\ pc = "idle"
    /\ raised = NoExc
    /\ NPoints = 2
    /\ Len(result) = 2
    /\ result[1] # result[2]

\* C6: loading calibration from a path that does not exist, directly or by
\* constructing a StereoReprojector, raises FileNotFoundError and nothing
\* else; no engine is made, and without an engine nothing is projected.
C6_MissingCalibration ==
    /\ (call.op \in {"__init__", "_load_calibration"} /\ ~Files(call.path).exists) =>
          /\ raised.type = "FileNotFoundError"
          /\ result = << >>
          /\ call.op = "__init__" => engine = NoEngine
    /\ engine.state = "none" =>
          call.op \notin {"project_3d_to_2d", "reproject_to_both_cameras"}

\* A construction with the default path, which does not exist.
C6_Witness ==
    /\ call.op = "__init__"
    /\ call.path = "missing.npz"
    /\ config_path = "missing.npz"
    /\ raised.type = "FileNotFoundError"
    /\ engine = NoEngine

\* C4: when some point of the batch has divisor w_h = 0 under the selected
\* matrix, project_3d_to_2d signals the degenerate projection (it raises); it
\* does not return normally with an infinite or NaN coordinate for the point.
C4_DegenerateSignalled ==
    (Projected /\ call.camera \in Cameras /\ Calibrated) =>
        \A i \in 1..NPoints :
            Degenerate(ClaimedP, batch.rows[i]) =>
                /\ raised # NoExc
                /\ result = << >>

\* C7: loading an artifact that exists but lacks P1 or P2, or holds a P1 or P2
\* that is not 3x4, raises FormatError; so every constructed engine holds two
\* 3x4 matrices.
C7_MalformedCalibration ==
    /\ (/\ call.op \in {"__init__", "_load_calibration"}
        /\ Files(call.path).exists
        /\ \/ {"P1", "P2"} \ Files(call.path).keys # {}
           \/ ~Is3x4(Files(call.path).P1)
           \/ ~Is3x4(Files(call.path).P2))
          => raised.type = "FormatError"
    /\ engine.state = "ready" => (Is3x4(engine.P1) /\ Is3x4(engine.P2))

\* C8: for cam1 and cam2, projecting an empty batch, the empty sequence []
\* included, succeeds and returns an empty sequence of 2D points.
C8_EmptyBatch ==
    (Projected /\ call.camera \in Cameras /\ Calibrated /\ NPoints = 0) =>
        /\ raised = NoExc
        /\ Len(result) = 1
        /\ len(result[1]) = 0
        /\ result[1].rows = << >>

\* What the code does for the empty batch: the array of shape (0, 3) projects
\* to the array of shape (0, 2); the list [] makes np.hstack raise ValueError.
EmptyBatchBehaviour ==
    (Projected /\ call.camera \in Cameras /\ Calibrated /\ NPoints = 0) =>
        IF ndim(batch) = 2
        THEN raised = NoExc /\ result = << Array2(<< >>, 2, "float32") >>
        ELSE raised.type = "ValueError" /\ result = << >>

\* C9: project_3d_to_2d is all-or-nothing: a call that fails returns no 2D
\* coordinates, and a call that returns has projected every point validly (no
\* point had w_h = 0, every coordinate returned is finite).
C9_AllOrNothing ==
    Projected =>
        /\ raised # NoExc => result = << >>
        /\ raised = NoExc =>
              \A i \in 1..Len(result[1].rows) :
                  \A j \in 1..Len(result[1].rows[i]) :
                      IsFinite(result[1].rows[i][j])

\* ceil(a / b) for a >= 0, b > 0.
CeilDiv(a, b) == (a + b - 1) \div b

\* What C10 says of a returned call: the files written are numbered 0, 1, 2, ...
\* and hold, in order, the frames whose index is a multiple of frame_interval.
SavedEveryNth(k) ==
    /\ frame_paths = [j \in 1..k |-> j - 1]
    /\ disk = {<< j, j * args.frame_interval >> : j \in 0..(k - 1)}

\* C10: for a readable video of T frames, a positive frame_interval and any
\* max_frames, extract_frames_from_video saves exactly the frames whose index
\* is a multiple of frame_interval, numbered 0, 1, 2, ..., stops as soon as
\* max_frames frames are saved, returns at most max_frames paths when
\* max_frames is given and ceil(T / frame_interval) paths when it is None.
\* (No list has fewer than 0 paths, so the limit is stated for max_frames >= 0.)
C10_ExtractEveryNth ==
    (fpc = "returned" /\ video.kind = "ok" /\ args.frame_interval > 0) =>
        LET all == CeilDiv(video.frames, args.frame_interval)
            k == Len(frame_paths)
        IN  /\ SavedEveryNth(k)
            /\ fraised = NoExc
            /\ IF args.max_frames.none
               THEN k = all
               ELSE args.max_frames.v >= 0 => k <= args.max_frames.v

\* What the code does: max_frames limits the frames saved only when it is a
\* positive integer; 0 is taken as None, and a negative one stops after one.
ExtractBehaviour ==
    (fpc = "returned" /\ video.kind = "ok" /\ args.frame_interval > 0) =>
        LET all == CeilDiv(video.frames, args.frame_interval)
            k == Len(frame_paths)
            m == args.max_frames
        IN  /\ SavedEveryNth(k)
            /\ k = IF m.none \/ m.v = 0 THEN all
                   ELSE IF m.v < 0 THEN Min(1, all)
                   ELSE Min(m.v, all)

\* A call of extract_frames_from_video ends: it returns or raises.
ExtractEnds == fpc \in {"returned", "raised"} \/ ENABLED NextFrames

====
